---- MODULE Spec2Model ----
(***************************************************************************)
(* Inventory ledger and FIFO consumption engine of nutripae-compras.       *)
(*                                                                         *)
(* The batch store is the "inventory" collection (one document per        *)
(* received lot), the ledger is the "inventory_movements" collection.      *)
(* Quantities are modelled as integers (a fixed-point view of the floats   *)
(* of the code); dates are small integers.                                  *)
(***************************************************************************)
EXTENDS Integers, Sequences, FiniteSets, TLC

\* ------------------------------------------------------------------ bounds
MaxBatches == 2
MaxLedger == 4
MaxQty == 2
MaxDate == 2

\* ------------------------------------------------------------- input sets
\* Products for which Product.get returns a document.
Products == {"p1", "p2"}
Institutions == {1, 2}
LocationNames == <<"A", "B">>
Locations == { LocationNames[k] : k \in 1..Len(LocationNames) }
\* Python None for an Optional[str] filter.
None == "None"
LotNames == <<"L1", "L2">>
Lots == { LotNames[k] : k \in 1..Len(LotNames) }
Quantities == 1..MaxQty
Dates == 1..MaxDate
Procs == {1, 2}

VARIABLES
    batches,    \* the inventory collection: sequence of documents, id = index
    ledger,     \* the inventory_movements collection, in insertion order
    last,       \* the response (or error) of the last completed call
    procs       \* per-request coroutine state of the interleaved runs

vars == <<batches, ledger, last, procs>>

\* -------------------------------------------------------------- helpers
Min(a, b) == IF a < b THEN a ELSE b
Max(a, b) == IF a > b THEN a ELSE b

RECURSIVE SumSeq(_)
SumSeq(s) == IF s = <<>> THEN 0 ELSE Head(s) + SumSeq(Tail(s))

\* ------------------------------------------------------------ documents
\* Inventory(...) as built by receive_inventory: remaining = initial = quantity.
Inventory(product_id, institution_id, quantity, unit, storage_location, date_of_admission, batch_number) ==
    [ product_id |-> product_id,
      institution_id |-> institution_id,
      remaining_weight |-> quantity,
      initial_weight |-> quantity,
      unit |-> unit,
      storage_location |-> storage_location,
      date_of_admission |-> date_of_admission,
      lot |-> batch_number,
      batch_number |-> batch_number,
      minimum_threshold |-> 0,
      deleted |-> FALSE ]

InventoryMovement(movement_type, product_id, institution_id, quantity, storage_location, lot) ==
    [ movement_type |-> movement_type,
      product_id |-> product_id,
      institution_id |-> institution_id,
      storage_location |-> storage_location,
      quantity |-> quantity,
      lot |-> lot ]

\* create_movement's sign check: RECEIPT needs quantity > 0, USAGE / EXPIRED /
\* LOSS need quantity < 0, ADJUSTMENT is not checked.
MovementQuantityOk(movement_type, quantity) ==
    IF movement_type = "receipt" THEN quantity > 0
    ELSE IF movement_type \in {"usage", "expired", "loss"} THEN quantity < 0
    ELSE TRUE

\* a write that replaces the newest document when there is one
InsertMovementOverwrite(l, m) ==
    IF l = <<>> THEN <<m>> ELSE [l EXCEPT ![Len(l)] = m]

\* movement.insert(): the collection grows by one document at the end.
InsertMovement(l, m) == Append(l, m)

\* a save that writes the caller's copy over every document
SaveBatchAll(store, id, doc) == [i \in 1..Len(store) |-> doc]

\* document.save(): the stored document is replaced by the caller's copy.
SaveBatch(store, id, doc) == [store EXCEPT ![id] = doc]

\* inventory_batch.insert()
InsertBatch(store, doc) == Append(store, doc)

\* ------------------------------------------------- _get_available_batches_fifo
\* the query without its institution_id condition
MatchesBatchQueryAnyInstitution(doc, product_id, institution_id, storage_location) ==
    /\ doc.product_id = product_id
    /\ doc.remaining_weight > 0
    /\ ~doc.deleted
    /\ (storage_location # None => doc.storage_location = storage_location)

MatchesBatchQuery(doc, product_id, institution_id, storage_location) ==
    /\ doc.product_id = product_id
    /\ doc.institution_id = institution_id
    /\ doc.remaining_weight > 0
    /\ ~doc.deleted
    /\ (storage_location # None => doc.storage_location = storage_location)

EligibleIds(store, product_id, institution_id, storage_location) ==
    { i \in 1..Len(store) :
        MatchesBatchQuery(store[i], product_id, institution_id, storage_location) }

RECURSIVE Orderings(_)
\* all sequences that list every element of S once
Orderings(S) ==
    IF S = {} THEN { <<>> }
    ELSE UNION { { <<x>> \o t : t \in Orderings(S \ {x}) } : x \in S }

\* the query without its sort: the documents in any order
get_available_batches_unsorted(store, product_id, institution_id, storage_location) ==
    LET ids == EligibleIds(store, product_id, institution_id, storage_location)
    IN { [k \in 1..Len(o) |-> [id |-> o[k], doc |-> store[o[k]]]] :
           o \in Orderings(ids) }

\* The query sorts on date_of_admission only: documents with the same date
\* come in an order the store chooses.  The result is a list of the caller's
\* copies of the documents, each with its id.
get_available_batches_fifo(store, product_id, institution_id, storage_location) ==
    LET ids == EligibleIds(store, product_id, institution_id, storage_location)
    IN { [k \in 1..Len(o) |-> [id |-> o[k], doc |-> store[o[k]]]] :
           o \in { p \in Orderings(ids) :
                     \A a, b \in 1..Len(p) :
                        a < b => store[p[a]].date_of_admission
                                   <= store[p[b]].date_of_admission } }

TotalAvailable(available) ==
    SumSeq([k \in 1..Len(available) |-> available[k].doc.remaining_weight])

\* ------------------------------------------------------ consume_inventory_fifo
\* a loop body that takes all a batch holds
ConsumeFromBatchAll(remaining_to_consume, doc) == doc.remaining_weight

\* consume_from_batch = min(remaining_to_consume, batch.remaining_weight)
ConsumeFromBatch(remaining_to_consume, doc) ==
    Min(remaining_to_consume, doc.remaining_weight)

\* a save that also resets initial_weight to what is left
UpdatedBatchResetsInitial(doc, consume_from_batch) ==
    [doc EXCEPT !.remaining_weight = Max(0, doc.remaining_weight - consume_from_batch),
                !.initial_weight = Max(0, doc.remaining_weight - consume_from_batch)]

\* the copy of the batch as it is saved
UpdatedBatch(doc, consume_from_batch) ==
    [doc EXCEPT !.remaining_weight = Max(0, doc.remaining_weight - consume_from_batch)]

\* a USAGE entry that records what the batch held instead of what was taken
UsageMovementWholeBatch(req, doc, consume_from_batch) ==
    InventoryMovement("usage", req.product_id, req.institution_id,
                      0 - doc.remaining_weight, req.storage_location, doc.lot)

\* a USAGE entry written without the lot of the batch
UsageMovementNoLot(req, doc, consume_from_batch) ==
    InventoryMovement("usage", req.product_id, req.institution_id,
                      0 - consume_from_batch, req.storage_location, None)

UsageMovement(req, doc, consume_from_batch) ==
    InventoryMovement("usage", req.product_id, req.institution_id,
                      0 - consume_from_batch, req.storage_location, doc.lot)

BatchConsumptionDetail(id, doc, consume_from_batch) ==
    [ inventory_id |-> id,
      lot |-> doc.lot,
      consumed_quantity |-> consume_from_batch,
      remaining_quantity |-> doc.remaining_weight ]

RECURSIVE FifoWalk(_, _, _, _)
\* The for loop over available_batches from position k on.  w carries the
\* store, the ledger, remaining_to_consume, batch_details, movement_ids and
\* the outcome.  The id of a movement is its position in the collection.
FifoWalk(req, available, k, w) ==
    IF k > Len(available) \/ w.remaining_to_consume <= 0 \/ w.status # "ok"
    THEN w
    ELSE
      LET b == available[k]
          c == ConsumeFromBatch(w.remaining_to_consume, b.doc)
          saved == UpdatedBatch(b.doc, c)
          store2 == SaveBatch(w.batches, b.id, saved)
      IN IF ~MovementQuantityOk("usage", 0 - c)
         THEN [w EXCEPT !.batches = store2, !.status = "invalid_movement"]
         ELSE FifoWalk(req, available, k + 1,
                [ batches |-> store2,
                  ledger |-> InsertMovement(w.ledger, UsageMovement(req, b.doc, c)),
                  remaining_to_consume |-> w.remaining_to_consume - c,
                  batch_details |-> Append(w.batch_details,
                                           BatchConsumptionDetail(b.id, saved, c)),
                  movement_ids |-> Append(w.movement_ids, Len(w.ledger) + 1),
                  status |-> "ok" ])

\* the stock check with its operands swapped
InsufficientStockReversed(total_available, quantity) == quantity < total_available

\* total_available < consumption_request.quantity
InsufficientStock(total_available, quantity) == total_available < quantity

ErrorResponse(op, status) == [op |-> op, status |-> status]

InventoryConsumptionResponse(req, w) ==
    [ op |-> "consume", status |-> "ok",
      product_id |-> req.product_id,
      institution_id |-> req.institution_id,
      storage_location |-> req.storage_location,
      total_quantity_consumed |-> req.quantity,
      batch_details |-> w.batch_details,
      movement_ids |-> w.movement_ids ]

consume_inventory_fifo(req) ==
    IF req.product_id \notin Products
    THEN /\ last' = ErrorResponse("consume", "product_not_found")
         /\ UNCHANGED <<batches, ledger, procs>>
    ELSE \E available \in get_available_batches_fifo(batches, req.product_id,
                              req.institution_id, req.storage_location) :
           IF InsufficientStock(TotalAvailable(available), req.quantity)
           THEN /\ last' = ErrorResponse("consume", "insufficient_stock")
                /\ UNCHANGED <<batches, ledger, procs>>
           ELSE LET w == FifoWalk(req, available, 1,
                            [ batches |-> batches, ledger |-> ledger,
                              remaining_to_consume |-> req.quantity,
                              batch_details |-> <<>>, movement_ids |-> <<>>,
                              status |-> "ok" ])
                IN /\ Len(w.ledger) <= MaxLedger
                   /\ batches' = w.batches
                   /\ ledger' = w.ledger
                   /\ last' = IF w.status # "ok"
                              THEN ErrorResponse("consume", w.status)
                              ELSE InventoryConsumptionResponse(req, w)
                   /\ UNCHANGED procs

\* ----------------------------------------------------------- receive_inventory
\* the duplicate check left out
ExistingBatchNever(store, product_id, institution_id, batch_number) == FALSE

\* Inventory.find_one on product_id, institution_id, batch_number, deleted_at
ExistingBatch(store, product_id, institution_id, batch_number) ==
    \E i \in 1..Len(store) :
        /\ store[i].product_id = product_id
        /\ store[i].institution_id = institution_id
        /\ store[i].batch_number = batch_number
        /\ ~store[i].deleted

\* `not storage_location or storage_location.strip() == ""`: of the location
\* strings of the requests, the empty one and the one made of a space
BlankLocations == {"", " "}

BlankLocation(storage_location) == storage_location \in BlankLocations

ReceiptMovement(req) ==
    InventoryMovement("receipt", req.product_id, req.institution_id,
                      req.quantity_received, req.storage_location, req.batch_number)

receive_inventory(req) ==
    IF req.product_id \notin Products
    THEN /\ last' = ErrorResponse("receive", "product_not_found")
         /\ UNCHANGED <<batches, ledger, procs>>
    ELSE IF BlankLocation(req.storage_location)
    THEN /\ last' = ErrorResponse("receive", "blank_location")
         /\ UNCHANGED <<batches, ledger, procs>>
    ELSE IF ExistingBatch(batches, req.product_id, req.institution_id, req.batch_number)
    THEN /\ last' = ErrorResponse("receive", "conflict")
         /\ UNCHANGED <<batches, ledger, procs>>
    ELSE /\ Len(batches) < MaxBatches
         /\ Len(ledger) < MaxLedger
         /\ batches' = InsertBatch(batches,
                Inventory(req.product_id, req.institution_id, req.quantity_received,
                          req.unit_of_measure, req.storage_location,
                          req.reception_date, req.batch_number))
         /\ IF MovementQuantityOk("receipt", req.quantity_received)
            THEN /\ ledger' = InsertMovement(ledger, ReceiptMovement(req))
                 /\ last' = [ op |-> "receive", status |-> "ok",
                              inventory_id |-> Len(batches) + 1,
                              quantity_received |-> req.quantity_received ]
            ELSE /\ ledger' = ledger
                 /\ last' = ErrorResponse("receive", "invalid_movement")
         /\ UNCHANGED procs

\* ---------------------------------------------------- create_manual_adjustment
\* the adjustment applied with the wrong sign
NewStockSignSlip(previous_stock, quantity) == previous_stock - quantity

\* the guard off by one
NegativeStockOffByOne(new_stock) == new_stock < 0 - 1

\* the guard left out
NegativeStockUnchecked(new_stock) == FALSE

\* new_stock = previous_stock + adjustment_request.quantity
NewStock(previous_stock, quantity) == previous_stock + quantity

\* the negative-stock guard: new_stock < 0
NegativeStock(new_stock) == new_stock < 0

AdjustmentMovement(req, inventory_batch) ==
    InventoryMovement("adjustment", req.product_id, inventory_batch.institution_id,
                      req.quantity, inventory_batch.storage_location,
                      inventory_batch.lot)

\* the checks without the comparison of the units
AdjustmentCheckSkipsUnit(req, inventory_batch) ==
    IF inventory_batch.product_id # req.product_id THEN "product_mismatch"
    ELSE IF NegativeStock(NewStock(inventory_batch.remaining_weight, req.quantity))
    THEN "negative_stock"
    ELSE "ok"

\* The checks made on the batch document once it is read; "ok" when all pass.
AdjustmentCheck(req, inventory_batch) ==
    IF inventory_batch.product_id # req.product_id THEN "product_mismatch"
    ELSE IF req.unit # inventory_batch.unit THEN "unit_mismatch"
    ELSE IF NegativeStock(NewStock(inventory_batch.remaining_weight, req.quantity))
    THEN "negative_stock"
    ELSE "ok"

create_manual_adjustment(req) ==
    IF req.product_id \notin Products
    THEN /\ last' = ErrorResponse("adjust", "product_not_found")
         /\ UNCHANGED <<batches, ledger, procs>>
    ELSE IF req.inventory_id > Len(batches) \/ batches[req.inventory_id].deleted
    THEN /\ last' = ErrorResponse("adjust", "batch_not_found")
         /\ UNCHANGED <<batches, ledger, procs>>
    ELSE LET inventory_batch == batches[req.inventory_id]
             previous_stock == inventory_batch.remaining_weight
             new_stock == NewStock(previous_stock, req.quantity)
             check == AdjustmentCheck(req, inventory_batch)
         IN IF check # "ok"
            THEN /\ last' = ErrorResponse("adjust", check)
                 /\ UNCHANGED <<batches, ledger, procs>>
            ELSE /\ Len(ledger) < MaxLedger
                 /\ batches' = SaveBatch(batches, req.inventory_id,
                        [inventory_batch EXCEPT !.remaining_weight = new_stock])
                 /\ ledger' = InsertMovement(ledger,
                                  AdjustmentMovement(req, inventory_batch))
                 /\ last' = [ op |-> "adjust", status |-> "ok",
                              inventory_id |-> req.inventory_id,
                              product_id |-> req.product_id,
                              adjustment_quantity |-> req.quantity,
                              unit |-> req.unit,
                              reason |-> req.reason,
                              previous_stock |-> previous_stock,
                              new_stock |-> new_stock ]
                 /\ UNCHANGED procs

\* ------------------------------------------------------------ get_current_stock
MatchesMovementQuery(m, product_id, institution_id, storage_location, lot) ==
    /\ m.product_id = product_id
    /\ m.institution_id = institution_id
    /\ (storage_location # None => m.storage_location = storage_location)
    /\ (lot # None => m.lot = lot)

LedgerQuantity(l, product_id, institution_id, storage_location, lot) ==
    SumSeq([k \in 1..Len(l) |->
              IF MatchesMovementQuery(l[k], product_id, institution_id,
                                      storage_location, lot)
              THEN l[k].quantity ELSE 0])

\* the sum returned as it is
get_current_stock_unclamped(l, product_id, institution_id, storage_location, lot) ==
    LedgerQuantity(l, product_id, institution_id, storage_location, lot)

\* return max(0, total_quantity)
get_current_stock(l, product_id, institution_id, storage_location, lot) ==
    Max(0, LedgerQuantity(l, product_id, institution_id, storage_location, lot))

\* -------------------------------------------------- get_available_stock_summary
\* newest_batch taken from the front of the list
NewestBatchFirst(available) == available[1]

\* oldest_batch = batches[0], newest_batch = batches[-1]
OldestBatch(available) == available[1]
NewestBatch(available) == available[Len(available)]

BatchDetail(b) ==
    [ inventory_id |-> b.id,
      remaining_weight |-> b.doc.remaining_weight,
      date_of_admission |-> b.doc.date_of_admission ]

StockSummaryResponse(product_id, institution_id, storage_location, available) ==
    [ op |-> "summary", status |-> "ok",
      product_id |-> product_id,
      institution_id |-> institution_id,
      storage_location |-> storage_location,
      total_available_stock |-> TotalAvailable(available),
      number_of_batches |-> Len(available),
      oldest_batch_date |-> IF available # <<>>
                            THEN OldestBatch(available).doc.date_of_admission
                            ELSE None,
      newest_batch_date |-> IF available # <<>>
                            THEN NewestBatch(available).doc.date_of_admission
                            ELSE None,
      batches |-> [k \in 1..Len(available) |-> BatchDetail(available[k])] ]

\* the responses the query can give: one for each order of the batch list
get_available_stock_summary(store, product_id, institution_id, storage_location) ==
    { StockSummaryResponse(product_id, institution_id, storage_location, available) :
        available \in get_available_batches_fifo(store, product_id, institution_id,
                                                 storage_location) }

\* ------------------------------------------- ManualInventoryAdjustmentRequest
\* Text fields of the request body are sequences of characters.
Whitespace == {" "}

\* a request model that leaves its strings as they come
StripNothing(s) == s

RECURSIVE StripLeft(_)
StripLeft(s) ==
    IF s # <<>> /\ Head(s) \in Whitespace THEN StripLeft(Tail(s)) ELSE s

RECURSIVE StripRight(_)
StripRight(s) ==
    IF s # <<>> /\ s[Len(s)] \in Whitespace
    THEN StripRight(SubSeq(s, 1, Len(s) - 1)) ELSE s

\* model_config str_strip_whitespace=True
str_strip_whitespace(s) == StripRight(StripLeft(s))

\* reason: str = Field(min_length=1), checked on the stripped string
ValidAdjustmentBody(body) == Len(str_strip_whitespace(body.reason)) >= 1

\* the validated request: its strings stripped
ManualInventoryAdjustmentRequest(body) ==
    [body EXCEPT !.reason = str_strip_whitespace(body.reason)]

\* ------------------------------------------------- requests of the serial runs
\* Lot numbers and storage locations are opaque strings that the code only
\* compares for equality, so a delivery names a value already in the store
\* or the first one not yet used; the other choices are renamings of these.
FirstUnused(names, used) ==
    IF \E k \in 1..Len(names) : names[k] \notin used
    THEN { names[CHOOSE k \in 1..Len(names) :
                    /\ names[k] \notin used
                    /\ \A j \in 1..(k - 1) : names[j] \in used] }
    ELSE {}

LotChoices(store, product_id, institution_id) ==
    LET used == { store[i].batch_number :
                    i \in { j \in 1..Len(store) :
                              /\ store[j].product_id = product_id
                              /\ store[j].institution_id = institution_id } }
    IN used \cup FirstUnused(LotNames, used)

LocationChoices(store) ==
    LET used == { store[i].storage_location : i \in 1..Len(store) }
    IN used \cup FirstUnused(LocationNames, used)

\* Deliveries of product p1 at institution 1 in every combination, and one
\* delivery each of another product and at another institution.
ReceiptRequests(store) ==
    [ product_id : {"p1"}, institution_id : {1},
      storage_location : LocationChoices(store), quantity_received : Quantities,
      unit_of_measure : {"kg"}, batch_number : LotChoices(store, "p1", 1),
      reception_date : Dates ]
    \cup
    { [ product_id |-> k[1], institution_id |-> k[2], storage_location |-> "A",
        quantity_received |-> MaxQty, unit_of_measure |-> "kg",
        batch_number |-> "L1", reception_date |-> 1 ] :
      k \in { <<"p2", 1>>, <<"p1", 2>> } }

ConsumptionRequests ==
    [ product_id : Products, institution_id : Institutions,
      storage_location : Locations \cup {None}, quantity : 1..(MaxQty + 1) ]

AdjustmentRequests ==
    [ product_id : Products, inventory_id : 1..MaxBatches,
      quantity : (0 - MaxQty)..MaxQty, unit : {"kg"}, reason : {<<"r">>} ]

\* ------------------------------------------------------------ specification
Init ==
    /\ batches = <<>>
    /\ ledger = <<>>
    /\ last = [op |-> "none", status |-> "none"]
    /\ procs = <<>>

Receive == \E req \in ReceiptRequests(batches) : receive_inventory(req)
Consume == \E req \in ConsumptionRequests : consume_inventory_fifo(req)
Adjust == \E req \in AdjustmentRequests : create_manual_adjustment(req)

Next == Receive \/ Consume \/ Adjust

Spec == Init /\ [][Next]_vars

\* ============================================================ the endpoints
\* The calls as they come over HTTP: request bodies that fail validation,
\* ids of products that do not exist, blank storage locations, units other
\* than the batch's, and the stock summary query.  Deliveries are of product
\* p1 at institution 1.
UnknownProduct == "p9"
Units == {"kg", "g"}
Reasons == { <<>>, <<" ">>, <<"r">>, <<" ", "r">> }

\* deliveries in every quantity and date, and with each product id and
\* storage location for one quantity and date
ApiReceiptRequests(store) ==
    [ product_id : {"p1"}, institution_id : {1}, storage_location : {"A"},
      quantity_received : Quantities, unit_of_measure : {"kg"},
      batch_number : LotChoices(store, "p1", 1), reception_date : Dates ]
    \cup
    [ product_id : {"p1", UnknownProduct}, institution_id : {1},
      storage_location : {"A"} \cup BlankLocations, quantity_received : {MaxQty},
      unit_of_measure : {"kg"}, batch_number : LotChoices(store, "p1", 1),
      reception_date : {1} ]

ApiConsumptionRequests ==
    [ product_id : {"p1", UnknownProduct}, institution_id : {1},
      storage_location : {None, "A"}, quantity : 1..(MaxQty + 1) ]

\* adjustments of every quantity with a reason, and with each product id,
\* unit and reason for one quantity
ApiAdjustmentBodies ==
    [ product_id : {"p1"}, inventory_id : 1..MaxBatches,
      quantity : (0 - MaxQty)..MaxQty, unit : {"kg"},
      reason : { <<"r">>, <<" ", "r">> } ]
    \cup
    [ product_id : Products \cup {UnknownProduct}, inventory_id : 1..MaxBatches,
      quantity : {1}, unit : Units, reason : Reasons ]

SummaryRequests ==
    [ product_id : Products, institution_id : {1}, storage_location : {None, "A"} ]

\* POST /manual-adjustment: the body is validated into the request model
\* (422 when it fails) and the service is called with the validated request
manual_adjustment_endpoint(body) ==
    IF ~ValidAdjustmentBody(body)
    THEN /\ last' = ErrorResponse("adjust", "validation_error")
         /\ UNCHANGED <<batches, ledger, procs>>
    ELSE create_manual_adjustment(ManualInventoryAdjustmentRequest(body))

\* GET /stock-summary/{product_id}/{institution_id}
stock_summary_endpoint(req) ==
    /\ last' \in get_available_stock_summary(batches, req.product_id,
                     req.institution_id, req.storage_location)
    /\ UNCHANGED <<batches, ledger, procs>>

ApiReceive == \E req \in ApiReceiptRequests(batches) : receive_inventory(req)
ApiConsume == \E req \in ApiConsumptionRequests : consume_inventory_fifo(req)
ApiAdjust == \E body \in ApiAdjustmentBodies : manual_adjustment_endpoint(body)
ApiSummary == \E req \in SummaryRequests : stock_summary_endpoint(req)

NextApi == ApiReceive \/ ApiConsume \/ ApiAdjust \/ ApiSummary

SpecApi == Init /\ [][NextApi]_vars

\* ======================================================= every writing path
\* All the calls of the repository that write a batch or a ledger entry, run
\* one at a time on product p1 at institution 1: receive_inventory,
\* register_ingredient_receipt (both services), consume_inventory_fifo,
\* create_manual_adjustment, the POST /manual-adjustment route of
\* pae_compras/api, and the current-stock query.

\* an item of an ingredient receipt as register_ingredient_receipt reads it
ReceivedItems ==
    [ product_id : {"p1"}, quantity : {1}, unit : {"kg"},
      storage_location : {"A"}, lot : Lots ]

RECURSIVE SeqsUpTo(_, _)
\* the sequences over S of length 1..n
SeqsUpTo(S, n) ==
    IF n = 0 THEN {}
    ELSE { <<x>> : x \in S }
         \cup { Append(t, x) : t \in SeqsUpTo(S, n - 1), x \in S }

IngredientReceipts ==
    [ institution_id : {1}, receipt_date : Dates,
      items : SeqsUpTo(ReceivedItems, MaxBatches) ]

\* Inventory(...) of the loop body: remaining = initial = item.quantity,
\* batch_number = lot = item.lot, date_of_admission = receipt_date
ItemBatch(receipt, item) ==
    Inventory(item.product_id, receipt.institution_id, item.quantity, item.unit,
              item.storage_location, receipt.receipt_date, item.lot)

\* create_receipt_movement: a RECEIPT of abs(quantity)
ItemReceiptMovement(receipt, item) ==
    InventoryMovement("receipt", item.product_id, receipt.institution_id,
                      IF item.quantity < 0 THEN 0 - item.quantity ELSE item.quantity,
                      item.storage_location, item.lot)

RECURSIVE RegisterItems(_, _, _)
\* the for loop over receipt_data.items from position k on: an insert of
\* the batch, then the RECEIPT entry; no look at the batches already stored
RegisterItems(receipt, k, w) ==
    IF k > Len(receipt.items) THEN w
    ELSE RegisterItems(receipt, k + 1,
            [ batches |-> InsertBatch(w.batches, ItemBatch(receipt, receipt.items[k])),
              ledger |-> InsertMovement(w.ledger,
                             ItemReceiptMovement(receipt, receipt.items[k])) ])

\* services/ingredient_receipt_service.py
register_ingredient_receipt(receipt) ==
    IF receipt.items = <<>>
    THEN /\ last' = ErrorResponse("register", "no_items")
         /\ UNCHANGED <<batches, ledger, procs>>
    ELSE IF \E k \in 1..Len(receipt.items) : receipt.items[k].product_id \notin Products
    THEN /\ last' = ErrorResponse("register", "product_not_found")
         /\ UNCHANGED <<batches, ledger, procs>>
    ELSE LET w == RegisterItems(receipt, 1, [batches |-> batches, ledger |-> ledger])
         IN /\ Len(w.batches) <= MaxBatches
            /\ Len(w.ledger) <= MaxLedger
            /\ batches' = w.batches
            /\ ledger' = w.ledger
            /\ last' = [ op |-> "register", status |-> "ok",
                         items |-> Len(receipt.items) ]
            /\ UNCHANGED procs

\* pae_compras/services/ingredient_receipt_service.py: Inventory(...) is
\* built without batch_number and initial_weight, which the document
\* requires, so the construction raises before any batch is inserted
legacy_register_ingredient_receipt(receipt) ==
    /\ last' = IF receipt.items = <<>>
               THEN ErrorResponse("legacy_register", "no_items")
               ELSE IF \E k \in 1..Len(receipt.items) :
                          receipt.items[k].product_id \notin Products
               THEN ErrorResponse("legacy_register", "product_not_found")
               ELSE ErrorResponse("legacy_register", "validation_error")
    /\ UNCHANGED <<batches, ledger, procs>>

\* POST /manual-adjustment of pae_compras/api: create_movement(ADJUSTMENT)
\* with the query parameters; no batch is read or written
legacy_manual_adjustment(req) ==
    IF req.product_id \notin Products
    THEN /\ last' = ErrorResponse("legacy_adjust", "product_not_found")
         /\ UNCHANGED <<batches, ledger, procs>>
    ELSE IF ~MovementQuantityOk("adjustment", req.quantity)
    THEN /\ last' = ErrorResponse("legacy_adjust", "invalid_movement")
         /\ UNCHANGED <<batches, ledger, procs>>
    ELSE /\ Len(ledger) < MaxLedger
         /\ ledger' = InsertMovement(ledger,
                InventoryMovement("adjustment", req.product_id, req.institution_id,
                                  req.quantity, req.storage_location, req.lot))
         /\ last' = [ op |-> "legacy_adjust", status |-> "ok",
                      quantity |-> req.quantity ]
         /\ UNCHANGED <<batches, procs>>

\* GET /stock/{product_id}/{institution_id}
current_stock_endpoint(req) ==
    /\ last' = [ op |-> "stock", status |-> "ok",
                 product_id |-> req.product_id,
                 institution_id |-> req.institution_id,
                 storage_location |-> req.storage_location,
                 lot |-> req.lot,
                 current_stock |-> get_current_stock(ledger, req.product_id,
                                      req.institution_id, req.storage_location,
                                      req.lot) ]
    /\ UNCHANGED <<batches, ledger, procs>>

LedgerReceiptRequests(store) ==
    [ product_id : {"p1"}, institution_id : {1}, storage_location : {"A"},
      quantity_received : Quantities, unit_of_measure : {"kg"},
      batch_number : LotChoices(store, "p1", 1), reception_date : Dates ]

LedgerConsumptionRequests ==
    [ product_id : {"p1"}, institution_id : {1}, storage_location : {None},
      quantity : 1..(MaxQty + 1) ]

LedgerAdjustmentRequests ==
    [ product_id : {"p1"}, inventory_id : 1..MaxBatches, quantity : {0 - 1, 1},
      unit : {"kg"}, reason : {<<"r">>} ]

LegacyAdjustmentRequests ==
    [ product_id : {"p1"}, institution_id : {1}, quantity : {0 - MaxQty, 1},
      storage_location : {None}, lot : {None} ]

CurrentStockRequests ==
    [ product_id : {"p1"}, institution_id : {1}, storage_location : {None, "A"},
      lot : {None, "L1"} ]

LedgerReceive == \E req \in LedgerReceiptRequests(batches) : receive_inventory(req)
Register == \E receipt \in IngredientReceipts : register_ingredient_receipt(receipt)
LegacyRegister == \E receipt \in IngredientReceipts : legacy_register_ingredient_receipt(receipt)
LedgerConsume == \E req \in LedgerConsumptionRequests : consume_inventory_fifo(req)
LedgerAdjust == \E req \in LedgerAdjustmentRequests : create_manual_adjustment(req)
LegacyAdjust == \E req \in LegacyAdjustmentRequests : legacy_manual_adjustment(req)
CurrentStock == \E req \in CurrentStockRequests : current_stock_endpoint(req)

NextLedger ==
    \/ LedgerReceive
    \/ Register
    \/ LegacyRegister
    \/ LedgerConsume
    \/ LedgerAdjust
    \/ LegacyAdjust
    \/ CurrentStock

SpecLedger == Init /\ [][NextLedger]_vars

\* ====================================================== interleaved requests
\* Two requests are served at once: each is a coroutine that gives way at
\* every database call (find, get, save, insert).  A request keeps its own
\* copies of the documents it read and writes a copy back whole.
IdleProc == [pc |-> "idle", op |-> "none", status |-> "none"]

\* The store after one or two deliveries of product p1 at institution 1, each
\* made by a completed receive_inventory call.
ConcReceipt(batch_number, reception_date, quantity) ==
    [ product_id |-> "p1", institution_id |-> 1, storage_location |-> "A",
      quantity_received |-> quantity, unit_of_measure |-> "kg",
      batch_number |-> batch_number, reception_date |-> reception_date ]

ReceivedBatch(req) ==
    Inventory(req.product_id, req.institution_id, req.quantity_received,
              req.unit_of_measure, req.storage_location, req.reception_date,
              req.batch_number)

ConcDeliveries ==
    { <<ConcReceipt("L1", 1, q)>> : q \in Quantities }
    \cup { <<ConcReceipt("L1", 1, q1), ConcReceipt("L2", 2, q2)>> :
             q1 \in Quantities, q2 \in Quantities }

ConcConsumptionRequests ==
    [ product_id : {"p1"}, institution_id : {1},
      storage_location : {None, "A"}, quantity : 1..(MaxQty + 1) ]

ConcAdjustmentRequests ==
    [ product_id : {"p1"}, inventory_id : 1..2,
      quantity : (0 - MaxQty)..MaxQty, unit : {"kg"} ]

InitConc ==
    /\ \E ds \in ConcDeliveries :
          /\ batches = [k \in 1..Len(ds) |-> ReceivedBatch(ds[k])]
          /\ ledger = [k \in 1..Len(ds) |-> ReceiptMovement(ds[k])]
    /\ last = [op |-> "none", status |-> "none"]
    /\ procs = [p \in Procs |-> IdleProc]

Finished(p, op, status) == [pc |-> "done", op |-> op, status |-> status]

\* consume_inventory_fifo up to the stock check: Product.get, the batch query
\* and the comparison with the requested quantity.
ConsumeRead(p) ==
    /\ procs[p].pc = "idle"
    /\ \E req \in ConcConsumptionRequests :
       \E available \in get_available_batches_fifo(batches, req.product_id,
                             req.institution_id, req.storage_location) :
          /\ procs' = [procs EXCEPT ![p] =
                IF req.product_id \notin Products
                THEN Finished(p, "consume", "product_not_found")
                ELSE IF InsufficientStock(TotalAvailable(available), req.quantity)
                THEN Finished(p, "consume", "insufficient_stock")
                ELSE [ pc |-> "save", op |-> "consume", status |-> "ok",
                       req |-> req, available |-> available, k |-> 1,
                       remaining_to_consume |-> req.quantity,
                       consume_from_batch |-> 0,
                       batch_details |-> <<>> ]]
          /\ UNCHANGED <<batches, ledger, last>>

\* the loop body up to batch.save(): the request's copy of batch k is
\* reduced and written back
ConsumeSave(p) ==
    /\ procs[p].pc = "save"
    /\ LET b == procs[p].available[procs[p].k]
           c == ConsumeFromBatch(procs[p].remaining_to_consume, b.doc)
           saved == UpdatedBatch(b.doc, c)
       IN /\ batches' = SaveBatch(batches, b.id, saved)
          /\ procs' = [procs EXCEPT ![p].pc = "move",
                                    ![p].available[procs[p].k].doc = saved,
                                    ![p].consume_from_batch = c]
    /\ UNCHANGED <<ledger, last>>

\* create_movement for batch k, the bookkeeping after it and the loop test
ConsumeMove(p) ==
    /\ procs[p].pc = "move"
    /\ LET me == procs[p]
           b == me.available[me.k]
           c == me.consume_from_batch
           left == me.remaining_to_consume - c
       IN IF ~MovementQuantityOk("usage", 0 - c)
          THEN /\ procs' = [procs EXCEPT ![p] =
                               Finished(p, "consume", "invalid_movement")]
               /\ UNCHANGED ledger
          ELSE /\ ledger' = InsertMovement(ledger, UsageMovement(me.req, b.doc, c))
               /\ procs' = [procs EXCEPT ![p] =
                    [ me EXCEPT
                        !.pc = IF me.k + 1 > Len(me.available) \/ left <= 0
                               THEN "done" ELSE "save",
                        !.k = me.k + 1,
                        !.remaining_to_consume = left,
                        !.batch_details =
                            Append(me.batch_details,
                                   BatchConsumptionDetail(b.id, b.doc, c)) ]]
    /\ UNCHANGED <<batches, last>>

\* create_manual_adjustment up to the negative-stock guard: Product.get,
\* Inventory.get and the checks on the copy read
AdjustRead(p) ==
    /\ procs[p].pc = "idle"
    /\ \E req \in ConcAdjustmentRequests :
          procs' = [procs EXCEPT ![p] =
             IF req.product_id \notin Products
             THEN Finished(p, "adjust", "product_not_found")
             ELSE IF req.inventory_id > Len(batches)
                     \/ batches[req.inventory_id].deleted
             THEN Finished(p, "adjust", "batch_not_found")
             ELSE LET inventory_batch == batches[req.inventory_id]
                      check == AdjustmentCheck(req, inventory_batch)
                  IN IF check # "ok"
                     THEN Finished(p, "adjust", check)
                     ELSE [ pc |-> "adj_save", op |-> "adjust", status |-> "ok",
                            req |-> req, inventory_batch |-> inventory_batch,
                            previous_stock |-> inventory_batch.remaining_weight,
                            new_stock |-> NewStock(inventory_batch.remaining_weight,
                                                   req.quantity) ]]
    /\ UNCHANGED <<batches, ledger, last>>

\* inventory_batch.save() with remaining_weight = new_stock
AdjustSave(p) ==
    /\ procs[p].pc = "adj_save"
    /\ LET me == procs[p]
       IN batches' = SaveBatch(batches, me.req.inventory_id,
              [me.inventory_batch EXCEPT !.remaining_weight = me.new_stock])
    /\ procs' = [procs EXCEPT ![p].pc = "adj_move"]
    /\ UNCHANGED <<ledger, last>>

\* movement.insert() of the ADJUSTMENT entry and the return
AdjustMove(p) ==
    /\ procs[p].pc = "adj_move"
    /\ ledger' = InsertMovement(ledger,
                     AdjustmentMovement(procs[p].req, procs[p].inventory_batch))
    /\ procs' = [procs EXCEPT ![p].pc = "done"]
    /\ UNCHANGED <<batches, last>>

NextConc ==
    \E p \in Procs :
        \/ ConsumeRead(p)
        \/ ConsumeSave(p)
        \/ ConsumeMove(p)
        \/ AdjustRead(p)
        \/ AdjustSave(p)
        \/ AdjustMove(p)

SpecConc == InitConc /\ [][NextConc]_vars

\* Every await of a request that has started completes: the event loop
\* resumes each coroutine whose database call has returned.
ProcStep(p) ==
    \/ ConsumeSave(p)
    \/ ConsumeMove(p)
    \/ AdjustSave(p)
    \/ AdjustMove(p)

SpecLive ==
    /\ InitConc
    /\ [][NextConc]_vars
    /\ \A p \in Procs : WF_vars(ProcStep(p))

\* ------------------------------------------- receive_inventory, step by step
\* a delivery of product p1 at institution 1 under either lot number
ConcReceiptRequests ==
    { ConcReceipt(lot, MaxDate, 1) : lot \in Lots }

\* receive_inventory up to the duplicate check: Product.get, the blank
\* location test and Inventory.find_one
ReceiveCheck(p) ==
    /\ procs[p].pc = "idle"
    /\ \E req \in ConcReceiptRequests :
          procs' = [procs EXCEPT ![p] =
             IF req.product_id \notin Products
             THEN Finished(p, "receive", "product_not_found")
             ELSE IF BlankLocation(req.storage_location)
             THEN Finished(p, "receive", "blank_location")
             ELSE IF ExistingBatch(batches, req.product_id, req.institution_id,
                                   req.batch_number)
             THEN Finished(p, "receive", "conflict")
             ELSE [ pc |-> "rcv_insert", op |-> "receive", status |-> "ok",
                    req |-> req ]]
    /\ UNCHANGED <<batches, ledger, last>>

\* inventory_batch.insert()
ReceiveInsert(p) ==
    /\ procs[p].pc = "rcv_insert"
    /\ batches' = InsertBatch(batches, ReceivedBatch(procs[p].req))
    /\ procs' = [procs EXCEPT ![p].pc = "rcv_move"]
    /\ UNCHANGED <<ledger, last>>

\* create_movement of the RECEIPT entry and the return
ReceiveMove(p) ==
    /\ procs[p].pc = "rcv_move"
    /\ IF MovementQuantityOk("receipt", procs[p].req.quantity_received)
       THEN /\ ledger' = InsertMovement(ledger, ReceiptMovement(procs[p].req))
            /\ procs' = [procs EXCEPT ![p].pc = "done"]
       ELSE /\ ledger' = ledger
            /\ procs' = [procs EXCEPT ![p].pc = "done",
                                      ![p].status = "invalid_movement"]
    /\ UNCHANGED <<batches, last>>

\* ------------------------------------- update_minimum_threshold, step by step
Thresholds == {1}

\* Inventory.get(inventory_id) and the 404 when there is no such document
ThresholdRead(p) ==
    /\ procs[p].pc = "idle"
    /\ \E inventory_id \in 1..MaxBatches, new_threshold \in Thresholds :
          procs' = [procs EXCEPT ![p] =
             IF inventory_id > Len(batches)
             THEN Finished(p, "threshold", "not_found")
             ELSE [ pc |-> "thr_save", op |-> "threshold", status |-> "ok",
                    inventory_id |-> inventory_id,
                    inventory_item |-> batches[inventory_id],
                    new_threshold |-> new_threshold ]]
    /\ UNCHANGED <<batches, ledger, last>>

\* inventory_item.minimum_threshold = new_threshold; inventory_item.save()
ThresholdSave(p) ==
    /\ procs[p].pc = "thr_save"
    /\ batches' = SaveBatch(batches, procs[p].inventory_id,
          [procs[p].inventory_item EXCEPT
              !.minimum_threshold = procs[p].new_threshold])
    /\ procs' = [procs EXCEPT ![p].pc = "done"]
    /\ UNCHANGED <<ledger, last>>

NextRace ==
    \/ NextConc
    \/ \E p \in Procs :
          \/ ReceiveCheck(p)
          \/ ReceiveInsert(p)
          \/ ReceiveMove(p)
          \/ ThresholdRead(p)
          \/ ThresholdSave(p)

SpecRace == InitConc /\ [][NextRace]_vars

\* ====================================================== failing batch saves
\* The interleaved requests with a batch.save() that raises.  The write of
\* the failed save may or may not have reached the store before the
\* exception; the handler turns the exception into a 500 response and the
\* request ends there.
FailedSaveOutcomes(store, id, doc) == { store, SaveBatch(store, id, doc) }

\* a handler that goes on to write the USAGE entry after the failed save
ConsumeSaveFailsThenMoves(p) ==
    /\ procs[p].pc = "save"
    /\ LET b == procs[p].available[procs[p].k]
           c == ConsumeFromBatch(procs[p].remaining_to_consume, b.doc)
       IN ledger' = InsertMovement(ledger, UsageMovement(procs[p].req, b.doc, c))
    /\ procs' = [procs EXCEPT ![p].pc = "done", ![p].status = "save_failed"]
    /\ UNCHANGED <<batches, last>>

\* the loop body when batch.save() raises: HTTPException(500), no
\* create_movement for batch k, no further pass of the loop
ConsumeSaveFails(p) ==
    /\ procs[p].pc = "save"
    /\ LET b == procs[p].available[procs[p].k]
           c == ConsumeFromBatch(procs[p].remaining_to_consume, b.doc)
       IN batches' \in FailedSaveOutcomes(batches, b.id, UpdatedBatch(b.doc, c))
    /\ procs' = [procs EXCEPT ![p].pc = "done", ![p].status = "save_failed"]
    /\ UNCHANGED <<ledger, last>>

\* create_movement for batch k raises after batch.save(): the exception
\* leaves the handler, the saved batch stays as written
ConsumeMoveFails(p) ==
    /\ procs[p].pc = "move"
    /\ procs' = [procs EXCEPT ![p].pc = "done", ![p].status = "insert_failed"]
    /\ UNCHANGED <<batches, ledger, last>>

\* movement.insert() of the ADJUSTMENT entry raises after inventory_batch.save()
AdjustMoveFails(p) ==
    /\ procs[p].pc = "adj_move"
    /\ procs' = [procs EXCEPT ![p].pc = "done", ![p].status = "insert_failed"]
    /\ UNCHANGED <<batches, ledger, last>>

\* create_movement of the RECEIPT entry raises after inventory_batch.insert()
ReceiveMoveFails(p) ==
    /\ procs[p].pc = "rcv_move"
    /\ procs' = [procs EXCEPT ![p].pc = "done", ![p].status = "insert_failed"]
    /\ UNCHANGED <<batches, ledger, last>>

NextFault ==
    \/ NextConc
    \/ \E p \in Procs :
          \/ ConsumeSaveFails(p)
          \/ ConsumeMoveFails(p)
          \/ AdjustMoveFails(p)
          \/ ReceiveCheck(p)
          \/ ReceiveInsert(p)
          \/ ReceiveMove(p)
          \/ ReceiveMoveFails(p)

SpecFault == InitConc /\ [][NextFault]_vars


\* ===================================================== floating-point weights
\* Every weight and quantity is a Python float.  A float is modelled as a
\* binary floating-point number with a significand of MantissaBits bits,
\* counted in units of the smallest weight, and every addition and
\* subtraction rounds to the nearest such number, ties to the even
\* significand, as IEEE 754 does with 53 bits.
MantissaBits == 3
MaxWeight == 2^MantissaBits - 1

\* the spacing of the floats around x
Ulp(x) ==
    IF x < 2^MantissaBits THEN 1
    ELSE IF x < 2^(MantissaBits + 1) THEN 2
    ELSE 4

\* round to nearest, ties to even
fl(x) ==
    LET lo == x - (x % Ulp(x))
        hi == lo + Ulp(x)
    IN IF x = lo THEN x
       ELSE IF x - lo < hi - x THEN lo
       ELSE IF x - lo > hi - x THEN hi
       ELSE IF (lo \div Ulp(x)) % 2 = 0 THEN lo
       ELSE hi

FloatAdd(a, b) == fl(a + b)

FloatSub(a, b) == IF a >= b THEN fl(a - b) ELSE 0 - fl(b - a)

RECURSIVE FloatSum(_, _)
\* sum(...) adds from the left, starting at 0, and rounds after each addition
FloatSum(s, acc) ==
    IF s = <<>> THEN acc ELSE FloatSum(Tail(s), FloatAdd(acc, Head(s)))

FloatTotalAvailable(available) ==
    FloatSum([k \in 1..Len(available) |-> available[k].doc.remaining_weight], 0)

FloatUpdatedBatch(doc, consume_from_batch) ==
    [doc EXCEPT !.remaining_weight =
                   Max(0, FloatSub(doc.remaining_weight, consume_from_batch))]

RECURSIVE FloatWalk(_, _, _, _)
\* the for loop over available_batches with float arithmetic
FloatWalk(req, available, k, w) ==
    IF k > Len(available) \/ w.remaining_to_consume <= 0 \/ w.status # "ok"
    THEN w
    ELSE
      LET b == available[k]
          c == ConsumeFromBatch(w.remaining_to_consume, b.doc)
          saved == FloatUpdatedBatch(b.doc, c)
          store2 == SaveBatch(w.batches, b.id, saved)
      IN IF ~MovementQuantityOk("usage", 0 - c)
         THEN [w EXCEPT !.batches = store2, !.status = "invalid_movement"]
         ELSE FloatWalk(req, available, k + 1,
                [ batches |-> store2,
                  ledger |-> InsertMovement(w.ledger, UsageMovement(req, b.doc, c)),
                  remaining_to_consume |-> FloatSub(w.remaining_to_consume, c),
                  batch_details |-> Append(w.batch_details,
                                           BatchConsumptionDetail(b.id, saved, c)),
                  movement_ids |-> Append(w.movement_ids, Len(w.ledger) + 1),
                  status |-> "ok" ])

\* the quantities a request can carry: the floats up to twice MaxWeight
FloatQuantities == { x \in 1..(2 * MaxWeight) : fl(x) = x }

FloatConsumptionRequests ==
    [ product_id : {"p1"}, institution_id : {1},
      storage_location : {None}, quantity : FloatQuantities ]

\* two deliveries of product p1 at institution 1 on successive dates
InitFloat ==
    /\ \E w1 \in 1..MaxWeight, w2 \in 1..MaxWeight :
          LET ds == <<ConcReceipt("L1", 1, w1), ConcReceipt("L2", 2, w2)>>
          IN /\ batches = [k \in 1..Len(ds) |-> ReceivedBatch(ds[k])]
             /\ ledger = [k \in 1..Len(ds) |-> ReceiptMovement(ds[k])]
    /\ last = [op |-> "none", status |-> "none"]
    /\ procs = <<>>

\* consume_inventory_fifo with float arithmetic.  Next to the response, last
\* keeps the locals of the call at its return: remaining_to_consume and the
\* number of eligible batches read.
FloatConsume ==
    \E req \in FloatConsumptionRequests :
    \E available \in get_available_batches_fifo(batches, req.product_id,
                         req.institution_id, req.storage_location) :
       IF InsufficientStock(FloatTotalAvailable(available), req.quantity)
       THEN /\ last' = ErrorResponse("consume", "insufficient_stock")
            /\ UNCHANGED <<batches, ledger, procs>>
       ELSE LET w == FloatWalk(req, available, 1,
                        [ batches |-> batches, ledger |-> ledger,
                          remaining_to_consume |-> req.quantity,
                          batch_details |-> <<>>, movement_ids |-> <<>>,
                          status |-> "ok" ])
            IN /\ batches' = w.batches
               /\ ledger' = w.ledger
               /\ last' = [ op |-> "consume", status |-> w.status,
                            total_quantity_consumed |-> req.quantity,
                            batch_details |-> w.batch_details,
                            movement_ids |-> w.movement_ids,
                            remaining_to_consume |-> w.remaining_to_consume,
                            eligible |-> Len(available) ]
               /\ UNCHANGED procs

NextFloat == FloatConsume

SpecFloat == InitFloat /\ [][NextFloat]_vars

\* ================================================================ properties
\* ---------------------------------------------------------------- batch views
BatchIds == 1..Len(batches)

\* sum of remaining_weight over the non-deleted batches matching a filter
BatchStock(store, product_id, institution_id, storage_location, lot) ==
    SumSeq([i \in 1..Len(store) |->
              IF /\ store[i].product_id = product_id
                 /\ store[i].institution_id = institution_id
                 /\ ~store[i].deleted
                 /\ (storage_location # None
                        => store[i].storage_location = storage_location)
                 /\ (lot # None => store[i].lot = lot)
              THEN store[i].remaining_weight ELSE 0])

\* sum of the RECEIPT, USAGE and ADJUSTMENT quantities of a product at an
\* institution
LedgerTotal(l, product_id, institution_id) ==
    SumSeq([k \in 1..Len(l) |->
              IF /\ l[k].product_id = product_id
                 /\ l[k].institution_id = institution_id
                 /\ l[k].movement_type \in {"receipt", "usage", "adjustment"}
              THEN l[k].quantity ELSE 0])

HasMovement(movement_type) ==
    \E k \in 1..Len(ledger) : ledger[k].movement_type = movement_type

C2_RemainingNonNegative ==
    \A i \in BatchIds : batches[i].remaining_weight >= 0

\* a negative adjustment has emptied a batch
C2_Witness ==
    /\ last.op = "adjust" /\ last.status = "ok"
    /\ last.adjustment_quantity < 0
    /\ batches[last.inventory_id].remaining_weight = 0

\* C3 (as claimed): every batch has remaining_weight <= initial_weight, also
\* after a successful positive manual adjustment.
C3_RemainingAtMostInitial ==
    \A i \in BatchIds : batches[i].remaining_weight <= batches[i].initial_weight

\* C4: within one successful consumption a batch is reduced only if every
\* eligible batch admitted strictly earlier has been brought to 0 by the
\* call, every batch the call touched except the last is left at 0, and the
\* batches it reduced are those of its batch_details.
C4_FifoStep ==
    (last'.op = "consume" /\ last'.status = "ok" /\ batches' # batches) =>
        LET d == last'.batch_details
            eligible == EligibleIds(batches, last'.product_id,
                                    last'.institution_id, last'.storage_location)
            reduced == { i \in BatchIds :
                           batches'[i].remaining_weight < batches[i].remaining_weight }
        IN /\ Len(batches') = Len(batches)
           /\ reduced = { d[k].inventory_id : k \in 1..Len(d) }
           /\ reduced \subseteq eligible
           /\ \A i \in reduced : \A j \in eligible :
                 batches[j].date_of_admission < batches[i].date_of_admission
                    => batches'[j].remaining_weight = 0
           /\ \A k \in 1..(Len(d) - 1) :
                 batches'[d[k].inventory_id].remaining_weight = 0

C4_FifoOrder == [][C4_FifoStep]_vars

\* the batch inserted second was admitted first: it is emptied and the batch
\* with the smaller id is left partly consumed
C4_Witness ==
    /\ last.op = "consume" /\ last.status = "ok"
    /\ Len(last.batch_details) = 2
    /\ last.batch_details[1].inventory_id > last.batch_details[2].inventory_id
    /\ batches[last.batch_details[1].inventory_id].remaining_weight = 0
    /\ batches[last.batch_details[2].inventory_id].remaining_weight > 0

\* C5: a consumption asking for more than the eligible batches hold fails
\* with the insufficient-stock error and changes neither a batch nor the
\* ledger: a call succeeds only when the stock read before it covers the
\* quantity, and a call that does not succeed is the insufficient-stock
\* rejection and leaves the store and the ledger as they were.
C5_InsufficientStep ==
    last'.op = "consume" =>
        IF last'.status = "ok"
        THEN last'.total_quantity_consumed
                <= BatchStock(batches, last'.product_id, last'.institution_id,
                              last'.storage_location, None)
        ELSE /\ last' = ErrorResponse("consume", "insufficient_stock")
             /\ batches' = batches
             /\ ledger' = ledger

C6_NegativeStep ==
    last'.op = "adjust" =>
        IF last'.status = "ok"
        THEN batches[last'.inventory_id].remaining_weight
                + last'.adjustment_quantity >= 0
        ELSE /\ batches' = batches
             /\ ledger' = ledger

C6_NegativeRejected == [][C6_NegativeStep]_vars

\* an adjustment was refused on a store with a partly consumed batch
C6_Witness ==
    /\ last = ErrorResponse("adjust", "negative_stock")
    /\ \E i \in BatchIds :
          /\ batches[i].remaining_weight > 0
          /\ batches[i].remaining_weight < batches[i].initial_weight

\* C9: the ledger after any step is the ledger before it followed by zero or
\* more new entries.
C9_AppendStep ==
    /\ Len(ledger') >= Len(ledger)
    /\ SubSeq(ledger', 1, Len(ledger)) = ledger

C9_AppendOnly == [][C9_AppendStep]_vars

\* every kind of entry the three operations write is in the ledger
C9_Witness ==
    /\ HasMovement("receipt") /\ HasMovement("usage") /\ HasMovement("adjustment")
    /\ Len(ledger) = MaxLedger

\* C10 (as claimed): for every product, institution, storage location and
\* lot filter, get_current_stock equals the sum of remaining_weight of the
\* batches matching the same filter.
C10_StockViewsAgree ==
    \A p \in Products, i \in Institutions :
      \A loc \in Locations \cup {None}, lot \in Lots \cup {None} :
        get_current_stock(ledger, p, i, loc, lot) = BatchStock(batches, p, i, loc, lot)

\* the entries a step added to the ledger
Added == SubSeq(ledger', Len(ledger) + 1, Len(ledger'))

\* the batches whose remaining_weight a step reduced
Reduced ==
    { i \in BatchIds : batches'[i].remaining_weight < batches[i].remaining_weight }

\* C11: a successful consumption appends exactly one USAGE entry for each
\* batch whose remaining_weight it reduced, with quantity minus the amount
\* taken from that batch and with that batch's lot, and nothing else; a
\* successful receipt appends exactly one RECEIPT entry; a successful manual
\* adjustment appends exactly one ADJUSTMENT entry.
C11_EntryStep ==
    /\ (last'.op = "consume" /\ last'.status = "ok") =>
          /\ Len(Added) = Cardinality(Reduced)
          /\ \A k \in 1..Len(Added) : Added[k].movement_type = "usage"
          /\ \A i \in Reduced :
                Cardinality({ k \in 1..Len(Added) :
                    /\ Added[k].product_id = batches[i].product_id
                    /\ Added[k].institution_id = batches[i].institution_id
                    /\ Added[k].lot = batches[i].lot
                    /\ Added[k].quantity = batches'[i].remaining_weight
                                              - batches[i].remaining_weight }) = 1
    /\ (last'.op = "receive" /\ last'.status = "ok") =>
          /\ Len(Added) = 1
          /\ Added[1].movement_type = "receipt"
          /\ Added[1].quantity = last'.quantity_received
    /\ (last'.op = "adjust" /\ last'.status = "ok") =>
          /\ Len(Added) = 1
          /\ Added[1].movement_type = "adjustment"
          /\ Added[1].quantity = last'.adjustment_quantity

C11_OneEntryPerEvent == [][C11_EntryStep]_vars

\* a consumption took from two batches and the two newest entries are its
\* USAGE entries, one for each lot
C11_Witness ==
    /\ last.op = "consume" /\ last.status = "ok"
    /\ Len(last.batch_details) = 2
    /\ Len(ledger) >= 2
    /\ ledger[Len(ledger)].movement_type = "usage"
    /\ ledger[Len(ledger) - 1].movement_type = "usage"
    /\ ledger[Len(ledger)].lot # ledger[Len(ledger) - 1].lot

\* C12: on success of a consumption of quantity Q the consumed quantities of
\* the batch details sum to Q and total_quantity_consumed is Q, each detail
\* reports what was taken from its batch and what the batch holds after the
\* call, there is one movement id per detail and it names the USAGE entry of
\* that detail; when Q is all the eligible batches held, each ends at 0.
C12_ResultStep ==
    (last'.op = "consume" /\ last'.status = "ok") =>
        LET d == last'.batch_details
            Q == last'.total_quantity_consumed
            m == last'.movement_ids
            eligible == EligibleIds(batches, last'.product_id,
                                    last'.institution_id, last'.storage_location)
        IN /\ SumSeq([k \in 1..Len(d) |-> d[k].consumed_quantity]) = Q
           /\ Q = 0 - SumSeq([k \in 1..Len(Added) |-> Added[k].quantity])
           /\ \A k \in 1..Len(d) :
                 /\ d[k].remaining_quantity
                       = batches'[d[k].inventory_id].remaining_weight
                 /\ d[k].consumed_quantity
                       = batches[d[k].inventory_id].remaining_weight
                           - batches'[d[k].inventory_id].remaining_weight
           /\ Len(m) = Len(d)
           /\ \A k \in 1..Len(m) :
                 /\ m[k] \in (Len(ledger) + 1)..Len(ledger')
                 /\ ledger'[m[k]].movement_type = "usage"
                 /\ ledger'[m[k]].quantity = 0 - d[k].consumed_quantity
                 /\ ledger'[m[k]].lot = d[k].lot
           /\ (Q = BatchStock(batches, last'.product_id, last'.institution_id,
                              last'.storage_location, None))
                 => \A i \in eligible : batches'[i].remaining_weight = 0

C13_AdjustStep ==
    (last'.op = "adjust" /\ last'.status = "ok") =>
        LET id == last'.inventory_id
        IN /\ Len(batches') = Len(batches)
           /\ batches'[id].remaining_weight
                 = batches[id].remaining_weight + last'.adjustment_quantity
           /\ last'.previous_stock = batches[id].remaining_weight
           /\ last'.new_stock = batches'[id].remaining_weight
           /\ \A j \in BatchIds : j # id => batches'[j] = batches[j]

C13_AdjustmentApplied == [][C13_AdjustStep]_vars

\* one of two batches was adjusted upwards; the other differs from it
C13_Witness ==
    /\ last.op = "adjust" /\ last.status = "ok"
    /\ last.adjustment_quantity > 0
    /\ last.new_stock = last.previous_stock + last.adjustment_quantity
    /\ Len(batches) = 2
    /\ batches[1] # batches[2]

\* C14 (as claimed): every ledger entry is coherent in sign and type:
\* RECEIPT quantity > 0, USAGE / EXPIRED / LOSS quantity < 0, ADJUSTMENT
\* quantity # 0 (a manual adjustment of quantity 0 appends nothing).
C14_SignCoherence ==
    \A k \in 1..Len(ledger) :
        /\ ledger[k].movement_type = "receipt" => ledger[k].quantity > 0
        /\ ledger[k].movement_type \in {"usage", "expired", "loss"}
              => ledger[k].quantity < 0
        /\ ledger[k].movement_type = "adjustment" => ledger[k].quantity # 0

\* C15: a receipt for a (product, institution, batch_number) that exists
\* among the non-deleted batches fails with the conflict error and creates
\* neither a batch nor a ledger entry: a receipt succeeds only when no such
\* batch was stored before it, and the refusal leaves the store and the
\* ledger as they were.
C15_DuplicateStep ==
    last'.op = "receive" =>
        IF last'.status = "ok"
        THEN /\ Len(batches') = Len(batches) + 1
             /\ last'.inventory_id = Len(batches')
             /\ ~ \E i \in BatchIds :
                    /\ batches[i].product_id = batches'[Len(batches')].product_id
                    /\ batches[i].institution_id
                          = batches'[Len(batches')].institution_id
                    /\ batches[i].batch_number
                          = batches'[Len(batches')].batch_number
                    /\ ~batches[i].deleted
        ELSE /\ last' = ErrorResponse("receive", "conflict")
             /\ batches' = batches
             /\ ledger' = ledger

C15_DuplicateRejected == [][C15_DuplicateStep]_vars

\* a second delivery under a batch number already stored was refused
C15_Witness ==
    /\ last = ErrorResponse("receive", "conflict")
    /\ Len(batches) >= 1
    /\ Len(ledger) = Len(batches)

\* ------------------------------------------------------------ the endpoints
PreconditionErrors ==
    { "product_not_found", "blank_location", "batch_not_found",
      "product_mismatch", "unit_mismatch" }

\* C17: a receipt with an unknown product or a blank storage location, a
\* consumption with an unknown product and an adjustment with an unknown
\* product, an unknown or soft-deleted batch, a batch of another product or
\* a unit other than the batch's return an error and leave the batches and
\* the ledger unchanged: a call succeeds only when its preconditions held in
\* the store before it, and each of these errors changes nothing.
C17_PreconditionStep ==
    /\ last'.status \in PreconditionErrors =>
          /\ batches' = batches
          /\ ledger' = ledger
    /\ (last'.op = "receive" /\ last'.status = "ok") =>
          /\ batches'[last'.inventory_id].product_id \in Products
          /\ batches'[last'.inventory_id].storage_location \notin {"", " "}
    /\ (last'.op = "consume" /\ last'.status = "ok") =>
          last'.product_id \in Products
    /\ (last'.op = "adjust" /\ last'.status = "ok") =>
          /\ last'.product_id \in Products
          /\ last'.inventory_id \in BatchIds
          /\ ~batches[last'.inventory_id].deleted
          /\ batches[last'.inventory_id].product_id = last'.product_id
          /\ batches[last'.inventory_id].unit = last'.unit

C17_PreconditionFailures == [][C17_PreconditionStep]_vars

\* an adjustment in another unit was refused on a store with a partly
\* consumed batch
C17_Witness ==
    /\ last = ErrorResponse("adjust", "unit_mismatch")
    /\ HasMovement("usage")
    /\ \E i \in BatchIds : batches[i].remaining_weight > 0

\* C18: a manual adjustment whose reason is empty or only whitespace is
\* rejected without a change to a batch and without a ledger entry: the
\* validation error changes nothing, and an adjustment that goes through
\* carries a reason with a character that is not whitespace.
C18_ReasonStep ==
    /\ last' = ErrorResponse("adjust", "validation_error") =>
          /\ batches' = batches
          /\ ledger' = ledger
    /\ (last'.op = "adjust" /\ last'.status = "ok") =>
          \E k \in 1..Len(last'.reason) : last'.reason[k] # " "

C18_BlankReasonRejected == [][C18_ReasonStep]_vars

\* a body with a blank reason was refused on a store holding a batch that
\* an earlier adjustment had changed
C18_Witness ==
    /\ last = ErrorResponse("adjust", "validation_error")
    /\ HasMovement("adjustment")
    /\ \E i \in BatchIds : batches[i].remaining_weight # batches[i].initial_weight

\* the ids of the batches a filter makes eligible in a store
Eligible(store, product_id, institution_id, storage_location) ==
    { i \in 1..Len(store) :
        /\ store[i].product_id = product_id
        /\ store[i].institution_id = institution_id
        /\ ~store[i].deleted
        /\ store[i].remaining_weight > 0
        /\ (storage_location # None => store[i].storage_location = storage_location) }

\* C19 (as claimed): the batch list of the stock summary and of a
\* consumption holds exactly the eligible batches in ascending
\* date_of_admission order, batches of the same date in ascending id order.
C19_ListStep ==
    /\ last'.op = "summary" =>
          LET l == last'.batches
          IN /\ { l[k].inventory_id : k \in 1..Len(l) }
                   = Eligible(batches', last'.product_id, last'.institution_id,
                              last'.storage_location)
             /\ \A a, b \in 1..Len(l) : a < b =>
                   \/ l[a].date_of_admission < l[b].date_of_admission
                   \/ /\ l[a].date_of_admission = l[b].date_of_admission
                      /\ l[a].inventory_id < l[b].inventory_id
    /\ (last'.op = "consume" /\ last'.status = "ok") =>
          LET d == last'.batch_details
          IN \A a, b \in 1..Len(d) : a < b =>
                LET i == d[a].inventory_id
                    j == d[b].inventory_id
                IN \/ batches[i].date_of_admission < batches[j].date_of_admission
                   \/ /\ batches[i].date_of_admission = batches[j].date_of_admission
                      /\ i < j

C19_EligibleListOrder == [][C19_ListStep]_vars

\* C20: the stock summary reports the sum of remaining_weight of the
\* eligible batches, their number and the earliest and latest admission
\* date among them; right after the receipt of quantity q as the first batch
\* of a product at an institution it reports total q and one batch.
C20_SummaryStep ==
    /\ last'.op = "summary" =>
          LET ids == Eligible(batches, last'.product_id, last'.institution_id,
                              last'.storage_location)
              dates == { batches[i].date_of_admission : i \in ids }
          IN /\ last'.total_available_stock
                   = BatchStock(batches, last'.product_id, last'.institution_id,
                                last'.storage_location, None)
             /\ last'.number_of_batches = Cardinality(ids)
             /\ IF ids = {}
                THEN /\ last'.oldest_batch_date = None
                     /\ last'.newest_batch_date = None
                ELSE /\ last'.oldest_batch_date \in dates
                     /\ last'.newest_batch_date \in dates
                     /\ \A t \in dates : /\ last'.oldest_batch_date <= t
                                          /\ t <= last'.newest_batch_date
    /\ (/\ last'.op = "receive" /\ last'.status = "ok"
        /\ ~ \E i \in BatchIds :
               /\ batches[i].product_id = batches'[last'.inventory_id].product_id
               /\ batches[i].institution_id
                     = batches'[last'.inventory_id].institution_id) =>
          \A sm \in get_available_stock_summary(batches',
                        batches'[last'.inventory_id].product_id,
                        batches'[last'.inventory_id].institution_id, None) :
              /\ sm.total_available_stock = last'.quantity_received
              /\ sm.number_of_batches = 1

C20_StockSummary == [][C20_SummaryStep]_vars

\* a summary over two batches of which the one stored second was admitted
\* first
C20_Witness ==
    /\ last.op = "summary"
    /\ last.number_of_batches = 2
    /\ last.oldest_batch_date < last.newest_batch_date
    /\ last.batches[1].inventory_id > last.batches[2].inventory_id
    /\ last.total_available_stock
          = batches[1].remaining_weight + batches[2].remaining_weight

\* C26: initial_weight, product, institution, lot and date_of_admission of a
\* batch never change after its creation and no operation removes a batch:
\* every step keeps each stored batch, exhausted or not, with these fields as
\* they were, and the number of batches does not decrease.
C26_IdentityStep ==
    /\ Len(batches') >= Len(batches)
    /\ \A i \in BatchIds :
          /\ batches'[i].initial_weight = batches[i].initial_weight
          /\ batches'[i].product_id = batches[i].product_id
          /\ batches'[i].institution_id = batches[i].institution_id
          /\ batches'[i].lot = batches[i].lot
          /\ batches'[i].date_of_admission = batches[i].date_of_admission

C26_BatchIdentityKept == [][C26_IdentityStep]_vars

\* an exhausted batch is still in the store after a later adjustment of
\* another batch
C26_Witness ==
    /\ last.op = "adjust" /\ last.status = "ok"
    /\ last.adjustment_quantity # 0
    /\ \E i \in BatchIds :
          /\ i # last.inventory_id
          /\ batches[i].remaining_weight = 0
          /\ batches[i].initial_weight > 0
    /\ HasMovement("usage")

\* C27: a consumption changes only batches of the requested product and
\* institution (and storage location, when one is given); it changes as
\* many batches as it writes USAGE entries, each of a quantity below 0, so
\* an eligible batch reached after remaining_to_consume is 0 is left as it
\* was and gets no entry.
C27_FrameStep ==
    last'.op = "consume" =>
        LET changed == { i \in BatchIds : batches'[i] # batches[i] }
        IN /\ Len(batches') = Len(batches)
           /\ \A i \in changed :
                 /\ last'.status = "ok"
                 /\ batches[i].product_id = last'.product_id
                 /\ batches[i].institution_id = last'.institution_id
                 /\ last'.storage_location # None
                       => batches[i].storage_location = last'.storage_location
           /\ Len(Added) = Cardinality(changed)
           /\ \A k \in 1..Len(Added) :
                 /\ Added[k].movement_type = "usage"
                 /\ Added[k].quantity < 0

C27_ConsumptionFrame == [][C27_FrameStep]_vars

\* a consumption took from the older of two eligible batches of its product
\* and institution and left the newer one full and without a USAGE entry,
\* next to a batch of another institution
C27_Witness ==
    /\ last.op = "consume" /\ last.status = "ok"
    /\ Len(last.batch_details) = 1
    /\ \E i \in BatchIds :
          /\ i # last.batch_details[1].inventory_id
          /\ batches[i].product_id = last.product_id
          /\ batches[i].institution_id = last.institution_id
          /\ batches[i].remaining_weight = batches[i].initial_weight
          /\ batches[i].date_of_admission
                > batches[last.batch_details[1].inventory_id].date_of_admission
    /\ Len(ledger) = Len(batches) + 1

\* the batches of a product at an institution
BatchesOf(product_id, institution_id) ==
    { i \in BatchIds : /\ batches[i].product_id = product_id
                       /\ batches[i].institution_id = institution_id }

\* the history of a product at an institution is made of receipts in
\* strictly increasing date_of_admission order and of consumptions without
\* a storage location filter: the ledger keeps every entry
FifoHistory(product_id, institution_id) ==
    /\ \A k \in 1..Len(ledger) :
          (/\ ledger[k].product_id = product_id
           /\ ledger[k].institution_id = institution_id) =>
              /\ ledger[k].movement_type \in {"receipt", "usage"}
              /\ ledger[k].movement_type = "usage"
                    => ledger[k].storage_location = None
    /\ \A i, j \in BatchesOf(product_id, institution_id) :
          i < j => batches[i].date_of_admission < batches[j].date_of_admission

Partial(i) ==
    /\ 0 < batches[i].remaining_weight
    /\ batches[i].remaining_weight < batches[i].initial_weight

\* no request is between its first read and its last write, and none of the
\* requests served was an adjustment
OnlyConsumptionsServed ==
    \A p \in DOMAIN procs : /\ procs[p].pc \in {"idle", "done"}
                             /\ procs[p].op \in {"none", "consume"}

\* C28: for a product and institution with receipts in strictly increasing
\* date order and unfiltered consumptions only, once every call has
\* returned, at most one batch is partly consumed, every batch older than it
\* is exhausted and every batch newer than it is full.
C28_OnePartialBatch ==
    \A p \in Products, n \in Institutions :
        (OnlyConsumptionsServed /\ FifoHistory(p, n)) =>
            LET B == BatchesOf(p, n)
            IN /\ Cardinality({ i \in B : Partial(i) }) <= 1
               /\ \A i \in B : Partial(i) =>
                     \A j \in B :
                        /\ batches[j].date_of_admission < batches[i].date_of_admission
                              => batches[j].remaining_weight = 0
                        /\ batches[j].date_of_admission > batches[i].date_of_admission
                              => batches[j].remaining_weight = batches[j].initial_weight

\* -------------------------------------------------------- every writing path
\* the RECEIPT entries that carry the product, institution and lot of batch
\* i and its initial_weight
ReceiptsOf(i) ==
    { k \in 1..Len(ledger) :
        /\ ledger[k].movement_type = "receipt"
        /\ ledger[k].product_id = batches[i].product_id
        /\ ledger[k].institution_id = batches[i].institution_id
        /\ ledger[k].lot = batches[i].lot
        /\ ledger[k].quantity = batches[i].initial_weight }

\* C24 (as claimed): each batch has exactly one RECEIPT entry with its
\* product, institution and lot and with quantity initial_weight, and every
\* RECEIPT entry belongs to exactly one batch.
C24_OneReceiptPerBatch ==
    /\ \A i \in BatchIds : Cardinality(ReceiptsOf(i)) = 1
    /\ \A k \in 1..Len(ledger) :
          ledger[k].movement_type = "receipt" =>
             Cardinality({ i \in BatchIds : k \in ReceiptsOf(i) }) = 1

\* C25 (as claimed): every ADJUSTMENT entry is appended together with a
\* change of its signed quantity to the remaining_weight of one batch of
\* its product, all other batches staying as they were.
C25_AdjustmentStep ==
    \A k \in 1..Len(Added) :
        Added[k].movement_type = "adjustment" =>
            /\ Len(batches') = Len(batches)
            /\ \E i \in BatchIds :
                  /\ batches[i].product_id = Added[k].product_id
                  /\ batches'[i].remaining_weight
                        = batches[i].remaining_weight + Added[k].quantity
                  /\ \A j \in BatchIds : j # i => batches'[j] = batches[j]

C25_AdjustmentChangesBatch == [][C25_AdjustmentStep]_vars

\* the sum of the ledger quantities that match the filters of a query
FilteredSum(product_id, institution_id, storage_location, lot) ==
    SumSeq([k \in 1..Len(ledger) |->
              IF /\ ledger[k].product_id = product_id
                 /\ ledger[k].institution_id = institution_id
                 /\ (storage_location = None
                       \/ ledger[k].storage_location = storage_location)
                 /\ (lot = None \/ ledger[k].lot = lot)
              THEN ledger[k].quantity ELSE 0])

\* C29: get_current_stock never returns a negative value: it returns the
\* sum of the matching ledger quantities when the sum is >= 0, and 0
\* otherwise.
C29_StockStep ==
    last'.op = "stock" =>
        LET total == FilteredSum(last'.product_id, last'.institution_id,
                                 last'.storage_location, last'.lot)
        IN /\ last'.current_stock >= 0
           /\ last'.current_stock = IF total >= 0 THEN total ELSE 0
           /\ batches' = batches
           /\ ledger' = ledger

C29_StockNeverNegative == [][C29_StockStep]_vars

\* the query answered 0 on a ledger whose matching entries sum to less
\* than 0
C29_Witness ==
    /\ last.op = "stock"
    /\ last.current_stock = 0
    /\ FilteredSum(last.product_id, last.institution_id,
                   last.storage_location, last.lot) < 0

\* --------------------------------------------------------- interleaved runs
AllDone == \A p \in Procs : procs[p].pc = "done"

\* sum of the USAGE quantities recorded against batch i (they are <= 0)
UsageAgainst(i) ==
    SumSeq([k \in 1..Len(ledger) |->
              IF /\ ledger[k].movement_type = "usage"
                 /\ ledger[k].product_id = batches[i].product_id
                 /\ ledger[k].institution_id = batches[i].institution_id
                 /\ ledger[k].lot = batches[i].lot
              THEN ledger[k].quantity ELSE 0])

\* C7 (as claimed): when two consumptions of the same product and institution
\* interleave between reading the batches and saving them, no update is
\* lost: once both have finished, each batch holds what it held before the
\* two calls (its initial_weight: the deliveries are untouched until then)
\* minus what the calls recorded against it, so no more is consumed than
\* was in stock.
C7_NoLostUpdate ==
    (AllDone /\ \A p \in Procs : procs[p].op = "consume") =>
        \A i \in BatchIds :
            /\ batches[i].remaining_weight
                  = batches[i].initial_weight + UsageAgainst(i)
            /\ 0 - UsageAgainst(i) <= batches[i].initial_weight

\* C8: when two consumptions, or a consumption and an adjustment, on the same
\* batch interleave at their read and save steps, the stored
\* remaining_weight of a batch is never negative.
C8_StoredNeverNegative ==
    \A i \in 1..Len(batches) : ~(batches[i].remaining_weight < 0)

\* a consumption and a negative adjustment both read batch 1 before either
\* saved it and both went through: the entries recorded against the batch
\* exceed what it held, and the stored value is still not negative
C8_Witness ==
    /\ AllDone
    /\ \E p, q \in Procs :
          /\ procs[p].op = "consume" /\ procs[p].status = "ok"
          /\ procs[q].op = "adjust" /\ procs[q].status = "ok"
          /\ procs[q].req.quantity < 0
          /\ procs[q].req.inventory_id = 1
          /\ \E k \in 1..Len(procs[p].batch_details) :
                procs[p].batch_details[k].inventory_id = 1
          /\ batches[1].initial_weight + UsageAgainst(1) + procs[q].req.quantity < 0

\* ------------------------------------------------------ failing batch saves
\* C16: when the save of a batch fails during the walk, the consumption ends
\* with an error: the failing step writes no ledger entry and changes no
\* batch other than the one being saved, the request takes no step after it
\* (no USAGE entry for that batch, no later batch touched), and what the
\* request saved and recorded for the batches before it stays as it was.
C16_FailStep ==
    \A p \in Procs :
        /\ (procs[p].pc = "save" /\ procs'[p].status = "save_failed") =>
              /\ procs'[p].pc = "done"
              /\ ledger' = ledger
              /\ Len(batches') = Len(batches)
              /\ \A j \in BatchIds :
                    j # procs[p].available[procs[p].k].id => batches'[j] = batches[j]
        /\ procs[p].status = "save_failed" => procs'[p] = procs[p]

C16_SaveFailureAborts == [][C16_FailStep]_vars

\* a consumption emptied the first batch, recorded it, and failed on the
\* save of the second: the first batch stays at 0 with its USAGE entry and
\* the second batch has no entry
C16_Witness ==
    \E p \in Procs :
        /\ procs[p].status = "save_failed"
        /\ procs[p].k = 2
        /\ Len(procs[p].batch_details) = 1
        /\ batches[procs[p].batch_details[1].inventory_id].remaining_weight = 0
        /\ Len(ledger) = Len(batches) + 1
        /\ ledger[Len(ledger)].movement_type = "usage"
        /\ ledger[Len(ledger)].lot = procs[p].batch_details[1].lot
        /\ \A q \in Procs : q # p => procs[q].pc = "idle"

\* C21 (as claimed): no batch change is committed without its ledger entry.
\* When the insert of the USAGE, ADJUSTMENT or RECEIPT entry fails after the
\* batch write and no other request has run, the store is as it was before
\* that write: the batch of the consumption holds what was saved plus what
\* was taken, the adjusted batch holds previous_stock, the received batch
\* is not in the store.
C21_NoBatchChangeWithoutEntry ==
    \A p \in Procs :
        (/\ procs[p].status = "insert_failed"
         /\ \A q \in Procs : q # p => procs[q].pc = "idle") =>
            /\ procs[p].op = "consume" =>
                  LET b == procs[p].available[procs[p].k]
                  IN batches[b.id].remaining_weight
                       = b.doc.remaining_weight + procs[p].consume_from_batch
            /\ procs[p].op = "adjust" =>
                  batches[procs[p].req.inventory_id].remaining_weight
                     = procs[p].previous_stock
            /\ procs[p].op = "receive" =>
                  ~ \E i \in BatchIds :
                       batches[i].batch_number = procs[p].req.batch_number

\* C22 (as claimed): the save of update_minimum_threshold leaves the stored
\* remaining_weight of every batch as it was, also when a consumption or an
\* adjustment wrote the batch between its read and its save.
C22_ThresholdStep ==
    \A p \in Procs :
        (procs[p].pc = "thr_save" /\ procs'[p].pc = "done") =>
            /\ Len(batches') = Len(batches)
            /\ \A i \in BatchIds :
                  batches'[i].remaining_weight = batches[i].remaining_weight

C22_ThresholdKeepsStock == [][C22_ThresholdStep]_vars

\* C23 (as claimed): no two non-deleted batches share the same product,
\* institution and batch_number.
C23_UniqueBatchNumber ==
    \A i, j \in BatchIds :
        (/\ i # j
         /\ ~batches[i].deleted /\ ~batches[j].deleted
         /\ batches[i].product_id = batches[j].product_id
         /\ batches[i].institution_id = batches[j].institution_id)
            => batches[i].batch_number # batches[j].batch_number

\* C30: every consumption returns an error or a result; a consumption that
\* succeeds has taken at most one step per eligible batch it read and ends
\* with remaining_to_consume equal to 0.
C30_WalkEndsAtZero ==
    (last.op = "consume" /\ last.status = "ok") =>
        /\ Len(last.batch_details) <= last.eligible
        /\ last.remaining_to_consume = 0

\* With exact quantities and every await completing, a request that has
\* entered the walk reaches its end, the walk never looks past the eligible
\* batches it read and makes at most one pass per batch, and a consumption
\* that succeeds ends with remaining_to_consume 0.
WalkTerminates ==
    /\ [](\A p \in Procs :
            procs[p].pc \in {"save", "move"} =>
                /\ procs[p].k <= Len(procs[p].available)
                /\ Len(procs[p].batch_details) = procs[p].k - 1)
    /\ [](\A p \in Procs :
            (procs[p].pc = "done" /\ procs[p].op = "consume"
                                  /\ procs[p].status = "ok") =>
                /\ procs[p].remaining_to_consume = 0
                /\ Len(procs[p].batch_details) <= Len(procs[p].available))
    /\ \A p \in Procs :
          (procs[p].pc \in {"save", "move"}) ~> (procs[p].pc = "done")

\* a consumption walked over both batches it read and ended with nothing
\* left to consume
WalkTerminates_Witness ==
    \E p \in Procs :
        /\ procs[p].pc = "done" /\ procs[p].op = "consume"
        /\ procs[p].status = "ok"
        /\ Len(procs[p].available) = 2
        /\ Len(procs[p].batch_details) = 2
        /\ procs[p].remaining_to_consume = 0

====
